---------------------------- MODULE Spec2Model ----------------------------
(***************************************************************************)
(* A model of the business-rules engine (business_rules/engine.py) and of  *)
(* the typed operators it dispatches to (business_rules/operators.py).     *)
(*                                                                         *)
(* Python values are tagged tuples <<tag, payload>>:                       *)
(*   <<"none", 0>>       None                                              *)
(*   <<"bool", b>>       a bool                                            *)
(*   <<"int", n>>        an int                                            *)
(*   <<"float", t>>      a float whose exact value is t ticks              *)
(*   <<"dec", t>>        a Decimal of t ticks                              *)
(*   <<"str", cs>>       a str, cs the sequence of its symbols             *)
(*   <<"list", vs>>      a list of values                                  *)
(*   <<"obj", s>>        any other object (a Match, a provider, ...)       *)
(* One tick is half of NumericType.EPSILON, so that a + EPSILON/2 is a     *)
(* value of the model.  A symbol of a str is a character or a whole word   *)
(* taken as one character ("paypal"); an attribute name is the str of one  *)
(* symbol.  A call either returns, <<"ok", v>>, or raises,                 *)
(* <<"raise", exception name>>.                                            *)
(***************************************************************************)
EXTENDS Integers, Sequences, FiniteSets, TLC

PyNone == <<"none", 0>>
PyBool(b) == <<"bool", b>>
PyInt(n) == <<"int", n>>
PyDec(t) == <<"dec", t>>
PyFloat(t) == <<"float", t>>
PyStr(cs) == <<"str", cs>>
PyList(vs) == <<"list", vs>>
PyObj(s) == <<"obj", s>>

Ok(v) == <<"ok", v>>
Raise(e) == <<"raise", e>>
IsOk(r) == r[1] = "ok"

\* NumericType.EPSILON = Decimal('0.000001'), in ticks.
EPSILON == 2
\* One unit (the int 1) in ticks: 1 = 1000000 * 0.000001.
TicksPerUnit == 1000000 * EPSILON

\* Python's truth value of an object (bool(v), `v or x`, `if v`, `not v`).
Truthy(v) ==
  CASE v[1] = "none" -> FALSE
    [] v[1] = "bool" -> v[2]
    [] v[1] \in {"int", "float", "dec"} -> v[2] # 0
    [] v[1] \in {"str", "list"} -> v[2] # <<>>
    [] OTHER -> TRUE

\* isinstance(v, int): bool is a subclass of int.
IsInt(v) == v[1] \in {"int", "bool"}
IsNumber(v) == v[1] \in {"int", "bool", "float", "dec"}

\* The numeric value of a number, in ticks.
Ticks(v) ==
  CASE v[1] = "bool" -> IF v[2] THEN TicksPerUnit ELSE 0
    [] v[1] = "int" -> v[2] * TicksPerUnit
    [] OTHER -> v[2]

\* str.lower() over the symbols of the model.
LowerChar(c) ==
  CASE c = "A" -> "a" [] c = "B" -> "b" [] c = "RED" -> "red" [] c = "Blue" -> "blue"
    [] OTHER -> c
Lower(cs) == [k \in 1..Len(cs) |-> LowerChar(cs[k])]

\* Python's == on two values: numbers compare by value across int, bool,
\* float and Decimal; everything else by type and content.
PyEq(a, b) ==
  IF IsNumber(a) /\ IsNumber(b) THEN Ticks(a) = Ticks(b)
  ELSE IF IsNumber(a) \/ IsNumber(b) THEN FALSE
  ELSE a[1] = b[1] /\ a[2] = b[2]

\* hasattr(v, '__iter__'), and the elements iterating over v yields (a str
\* yields its characters).
HasIter(v) == v[1] \in {"str", "list"}
Elems(v) == IF v[1] = "str" THEN [k \in 1..Len(v[2]) |-> PyStr(<<v[2][k]>>)] ELSE v[2]

(***************************************************************************)
(* operators.py: _assert_valid_value_and_cast of each type.                *)
(***************************************************************************)
\* float_to_decimal(f): the exact decimal expansion of f.
float_to_decimal(f) == PyDec(f[2])

StringType_assert_valid_value_and_cast(value) ==
  LET v == IF Truthy(value) THEN value ELSE PyStr(<<>>)
  IN  IF v[1] # "str" THEN Raise("AssertionError") ELSE Ok(v)

NumericType_assert_valid_value_and_cast(value) ==
  IF value[1] = "float" THEN Ok(float_to_decimal(value))
  ELSE IF IsInt(value) THEN Ok(PyDec(Ticks(value)))
  ELSE IF value[1] = "dec" THEN Ok(value)
  ELSE Raise("AssertionError")

BooleanType_assert_valid_value_and_cast(value) ==
  IF value[1] # "bool" THEN Raise("AssertionError") ELSE Ok(value)

SelectType_assert_valid_value_and_cast(value) ==
  IF ~HasIter(value) THEN Raise("AssertionError") ELSE Ok(value)

SelectMultipleType_assert_valid_value_and_cast(value) ==
  IF ~HasIter(value) THEN Raise("AssertionError") ELSE Ok(value)

Kinds == {"string", "numeric", "boolean", "select", "select_multiple"}

\* self._assert_valid_value_and_cast(value) on an instance of the type.
assert_valid_value_and_cast(kind, value) ==
  CASE kind = "string" -> StringType_assert_valid_value_and_cast(value)
    [] kind = "numeric" -> NumericType_assert_valid_value_and_cast(value)
    [] kind = "boolean" -> BooleanType_assert_valid_value_and_cast(value)
    [] kind = "select" -> SelectType_assert_valid_value_and_cast(value)
    [] kind = "select_multiple" -> SelectMultipleType_assert_valid_value_and_cast(value)

(***************************************************************************)
(* operators.py: the operators of each type.  self is the instance's       *)
(* value (already cast by BaseType.__init__), other the operator's         *)
(* argument after type_operator's cast.  A regex of the model has no       *)
(* metacharacter, so re.search finds it exactly where it is a substring.   *)
(***************************************************************************)
IsPrefix(p, s) == Len(p) <= Len(s) /\ SubSeq(s, 1, Len(p)) = p
IsSuffix(p, s) == Len(p) <= Len(s) /\ SubSeq(s, Len(s) - Len(p) + 1, Len(s)) = p
IsSubstr(p, s) == \E k \in 0..(Len(s) - Len(p)) : SubSeq(s, k + 1, k + Len(p)) = p

StringType_operator(name, self, other) ==
  CASE name = "equal_to" -> PyBool(self[2] = other[2])
    [] name = "equal_to_case_insensitive" -> PyBool(Lower(self[2]) = Lower(other[2]))
    [] name = "not_equal_to" -> PyBool(self[2] # other[2])
    [] name = "not_equal_to_case_insensitive" -> PyBool(Lower(self[2]) # Lower(other[2]))
    [] name = "starts_with" -> PyBool(IsPrefix(other[2], self[2]))
    [] name = "ends_with" -> PyBool(IsSuffix(other[2], self[2]))
    [] name = "contains" -> PyBool(IsSubstr(other[2], self[2]))
    [] name = "matches_regex" -> IF IsSubstr(other[2], self[2]) THEN PyObj("Match") ELSE PyNone
    [] name = "non_empty" -> PyBool(Truthy(self))

Abs(n) == IF n < 0 THEN -n ELSE n

NumericType_equal_to(self, other) == Abs(self[2] - other[2]) <= EPSILON
\* greater_than taking a difference of exactly EPSILON for greater.
NumericType_greater_than_inclusive(self, other) == (self[2] - other[2]) >= EPSILON
NumericType_greater_than(self, other) == (self[2] - other[2]) > EPSILON
NumericType_less_than(self, other) == (other[2] - self[2]) > EPSILON

NumericType_operator(name, self, other) ==
  CASE name = "equal_to" -> PyBool(NumericType_equal_to(self, other))
    [] name = "greater_than" -> PyBool(NumericType_greater_than(self, other))
    [] name = "greater_than_or_equal_to" ->
         PyBool(NumericType_greater_than(self, other) \/ NumericType_equal_to(self, other))
    [] name = "less_than" -> PyBool(NumericType_less_than(self, other))
    [] name = "less_than_or_equal_to" ->
         PyBool(NumericType_less_than(self, other) \/ NumericType_equal_to(self, other))

BooleanType_operator(name, self) ==
  CASE name = "is_true" -> self
    [] name = "is_false" -> PyBool(~Truthy(self))

_case_insensitive_equal_to(value_from_list, other_value) ==
  IF value_from_list[1] = "str" /\ other_value[1] = "str"
  THEN Lower(value_from_list[2]) = Lower(other_value[2])
  ELSE PyEq(value_from_list, other_value)

SelectType_contains(self, other_value) ==
  \E k \in 1..Len(Elems(self)) : _case_insensitive_equal_to(Elems(self)[k], other_value)

SelectType_operator(name, self, other) ==
  CASE name = "contains" -> PyBool(SelectType_contains(self, other))
    [] name = "does_not_contain" -> PyBool(~SelectType_contains(self, other))

SelectMultipleType_contains_all(self, other_value) ==
  \A k \in 1..Len(Elems(other_value)) : SelectType_contains(self, Elems(other_value)[k])

SelectMultipleType_shares_at_least_one_element_with(self, other_value) ==
  \E k \in 1..Len(Elems(other_value)) : SelectType_contains(self, Elems(other_value)[k])

SelectMultipleType_operator(name, self, other) ==
  CASE name = "contains_all" -> PyBool(SelectMultipleType_contains_all(self, other))
    [] name = "is_contained_by" -> PyBool(SelectMultipleType_contains_all(other, self))
    [] name = "shares_at_least_one_element_with" ->
         PyBool(SelectMultipleType_shares_at_least_one_element_with(self, other))
    [] name = "shares_exactly_one_element_with" ->
         PyBool(Cardinality({k \in 1..Len(Elems(other)) :
                               SelectType_contains(self, Elems(other)[k])}) = 1)
    [] name = "shares_no_elements_with" ->
         PyBool(~SelectMultipleType_shares_at_least_one_element_with(self, other))

\* The methods of each type that type_operator marks is_operator: what
\* get_all_operators lists.
DeclaredOperators(kind) ==
  CASE kind = "string" ->
         {"equal_to", "equal_to_case_insensitive", "not_equal_to",
          "not_equal_to_case_insensitive", "starts_with", "ends_with",
          "contains", "matches_regex", "non_empty"}
    [] kind = "numeric" ->
         {"equal_to", "greater_than", "greater_than_or_equal_to",
          "less_than", "less_than_or_equal_to"}
    [] kind = "boolean" -> {"is_true", "is_false"}
    [] kind = "select" -> {"contains", "does_not_contain"}
    [] kind = "select_multiple" ->
         {"contains_all", "is_contained_by", "shares_at_least_one_element_with",
          "shares_exactly_one_element_with", "shares_no_elements_with"}

\* The operators declared with input_type FIELD_NO_INPUT.
NoInputOperators(kind) ==
  CASE kind = "string" -> {"non_empty"}
    [] kind = "boolean" -> {"is_true", "is_false"}
    [] OTHER -> {}

\* The operators declared with assert_type_for_arguments=False.
UncastOperators(kind) ==
  IF kind = "select" THEN {"contains", "does_not_contain"} ELSE {}

\* type_operator's inner: cast the arguments, then call the operator.
\* args is the sequence of positional arguments of the call.
type_operator(kind, name, self, args) ==
  LET cast == [k \in 1..Len(args) |->
                 IF name \in UncastOperators(kind) THEN Ok(args[k])
                 ELSE assert_valid_value_and_cast(kind, args[k])]
      arity == IF name \in NoInputOperators(kind) THEN 0 ELSE 1
  IN  IF \E k \in 1..Len(args) : ~IsOk(cast[k]) THEN Raise("AssertionError")
      ELSE IF Len(args) # arity THEN Raise("TypeError")
      ELSE Ok(CASE kind = "string" ->
                     StringType_operator(name, self, IF arity = 1 THEN cast[1][2] ELSE PyNone)
                [] kind = "numeric" -> NumericType_operator(name, self, cast[1][2])
                [] kind = "boolean" -> BooleanType_operator(name, self)
                [] kind = "select" -> SelectType_operator(name, self, cast[1][2])
                [] kind = "select_multiple" ->
                     SelectMultipleType_operator(name, self, cast[1][2]))

(***************************************************************************)
(* engine.py: _do_operator_comparison.  operator_type is an instance of a  *)
(* BaseType subclass, [kind, value]; getattr finds any attribute of it,    *)
(* operator or not.  Besides the declared operators the classes of         *)
(* operators.py define:                                                    *)
(*   __init__(value)                     casts, returns None               *)
(*   _assert_valid_value_and_cast(value) returns the cast value            *)
(*   get_all_operators()                 a classmethod of no argument      *)
(*   _case_insensitive_equal_to(a, b)    SelectType, two arguments         *)
(*   value, name, export_in_rule_data, EPSILON (NumericType): not callable *)
(* (The attributes every Python object has, __eq__, __str__, ..., are not  *)
(* listed.)                                                                *)
(***************************************************************************)
PlainAttributes(kind) ==
  {"value", "name", "export_in_rule_data"} \cup (IF kind = "numeric" THEN {"EPSILON"} ELSE {})

WrongArityMethods(kind) ==
  {"get_all_operators"} \cup (IF kind = "select" THEN {"_case_insensitive_equal_to"} ELSE {})

\* Every name getattr(operator_type, name, fallback) resolves without fallback.
TypeAttributes(kind) ==
  DeclaredOperators(kind) \cup {"__init__", "_assert_valid_value_and_cast"}
    \cup WrongArityMethods(kind) \cup PlainAttributes(kind)

_do_operator_comparison(operator_type, operator_name, comparison_value) ==
  LET kind == operator_type.kind
  IN  IF operator_name \in DeclaredOperators(kind)
      THEN IF operator_name \in NoInputOperators(kind)
           THEN type_operator(kind, operator_name, operator_type.value, <<>>)
           ELSE type_operator(kind, operator_name, operator_type.value, <<comparison_value>>)
      ELSE IF operator_name = "__init__"
      THEN IF IsOk(assert_valid_value_and_cast(kind, comparison_value))
           THEN Ok(PyNone) ELSE Raise("AssertionError")
      ELSE IF operator_name = "_assert_valid_value_and_cast"
      THEN assert_valid_value_and_cast(kind, comparison_value)
      ELSE IF operator_name \in WrongArityMethods(kind) \cup PlainAttributes(kind)
      THEN Raise("TypeError")
      ELSE Raise("AssertionError")    \* fallback

(***************************************************************************)
(* The providers.  defined_variables maps every name of VariableNames to   *)
(* what getattr finds on the provider:                                     *)
(*   attr "variable": a rule variable, with its field_type and what a call *)
(*                    does (ret: <<"ok", raw value>> or <<"raise", e>>)    *)
(*   attr "method":   a callable that is no rule variable (no field_type)  *)
(*   attr "absent":   no attribute of the name                             *)
(* An evaluation is [res |-> <<"ok", v>> or <<"raise", e>>, calls |-> the  *)
(* names of the provider's callables it invoked, in order].                *)
(***************************************************************************)
Eval(res, calls) == [res |-> res, calls |-> calls]

\* The attribute a str names; anything getattr cannot find is "<absent>".
AttrName(v) == IF v[1] = "str" /\ Len(v[2]) = 1 THEN v[2][1] ELSE "<absent>"

_get_variable_value(defined_variables, name) ==
  LET d == IF name \in DOMAIN defined_variables THEN defined_variables[name]
           ELSE [attr |-> "absent", field_type |-> "", ret |-> Ok(PyNone)]
  IN  CASE d.attr = "absent" -> Eval(Raise("AssertionError"), <<>>)   \* fallback
        [] d.attr = "method" -> Eval(Raise("AttributeError"), <<name>>)
        [] d.attr = "variable" ->
             IF ~IsOk(d.ret) THEN Eval(d.ret, <<name>>)
             ELSE LET c == assert_valid_value_and_cast(d.field_type, d.ret[2])
                  IN  IF IsOk(c)
                      THEN Eval(Ok([kind |-> d.field_type, value |-> c[2]]), <<name>>)
                      ELSE Eval(Raise("AssertionError"), <<name>>)

(***************************************************************************)
(* A condition is a dict: keys is its key set, and the fields hold the     *)
(* values of the keys it has.                                              *)
(***************************************************************************)
LeafNode(name, op, value, viv) ==
  [keys |-> {"name", "operator", "value"} \cup (IF viv THEN {"value_is_variable"} ELSE {}),
   all |-> <<>>, any |-> <<>>, name |-> name, operator |-> op, value |-> value,
   value_is_variable |-> viv]

AllNode(children) ==
  [keys |-> {"all"}, all |-> children, any |-> <<>>, name |-> "", operator |-> "",
   value |-> PyNone, value_is_variable |-> FALSE]

AnyNode(children) ==
  [keys |-> {"any"}, all |-> <<>>, any |-> children, name |-> "", operator |-> "",
   value |-> PyNone, value_is_variable |-> FALSE]

\* check_condition fetching the operand variable before the leaf's own.
check_condition_operand_first(condition, defined_variables) ==
  IF ~({"name", "operator", "value"} \subseteq condition.keys)
  THEN Eval(Raise("KeyError"), <<>>)
  ELSE
  LET operator_type == _get_variable_value(defined_variables, condition.name)
  IN  IF "value_is_variable" \in condition.keys /\ condition.value_is_variable
         /\ condition.value[1] = "str"
      THEN LET temp_value == _get_variable_value(defined_variables,
                                                 AttrName(condition.value))
               calls == temp_value.calls \o operator_type.calls
           IN  IF ~IsOk(temp_value.res) THEN Eval(temp_value.res, temp_value.calls)
               ELSE IF ~IsOk(operator_type.res) THEN Eval(operator_type.res, calls)
               ELSE Eval(_do_operator_comparison(operator_type.res[2],
                           condition.operator, temp_value.res[2].value), calls)
      ELSE IF ~IsOk(operator_type.res) THEN operator_type
      ELSE Eval(_do_operator_comparison(operator_type.res[2], condition.operator,
                                        condition.value), operator_type.calls)

check_condition(condition, defined_variables) ==
  IF ~({"name", "operator", "value"} \subseteq condition.keys)
  THEN Eval(Raise("KeyError"), <<>>)
  ELSE
  LET operator_type == _get_variable_value(defined_variables, condition.name)
  IN  IF ~IsOk(operator_type.res) THEN operator_type
      ELSE IF "value_is_variable" \in condition.keys /\ condition.value_is_variable
      THEN IF condition.value[1] # "str"
           THEN Eval(Raise("TypeError"), operator_type.calls)   \* getattr: not a str
           ELSE LET temp_value == _get_variable_value(defined_variables,
                                                      AttrName(condition.value))
                    calls == operator_type.calls \o temp_value.calls
                IN  IF ~IsOk(temp_value.res) THEN Eval(temp_value.res, calls)
                    ELSE Eval(_do_operator_comparison(operator_type.res[2],
                                condition.operator, temp_value.res[2].value), calls)
      ELSE Eval(_do_operator_comparison(operator_type.res[2], condition.operator,
                                        condition.value), operator_type.calls)

RECURSIVE check_conditions_recursively(_, _)
RECURSIVE check_all(_, _, _, _)
RECURSIVE check_any(_, _, _, _)

RECURSIVE check_all_eager(_, _, _, _)
RECURSIVE check_any_eager(_, _, _, _)

\* check_all without the early return: every child is evaluated.
check_all_eager(children, k, defined_variables, calls) ==
  IF k > Len(children) THEN Eval(Ok(PyBool(TRUE)), calls)
  ELSE LET r == check_conditions_recursively(children[k], defined_variables)
           rest == check_all_eager(children, k + 1, defined_variables, calls \o r.calls)
       IN  IF ~IsOk(r.res) THEN Eval(r.res, calls \o r.calls)
           ELSE IF ~Truthy(r.res[2]) /\ IsOk(rest.res) THEN Eval(Ok(PyBool(FALSE)), rest.calls)
           ELSE rest

\* check_any without the early return: every child is evaluated.
check_any_eager(children, k, defined_variables, calls) ==
  IF k > Len(children) THEN Eval(Ok(PyBool(FALSE)), calls)
  ELSE LET r == check_conditions_recursively(children[k], defined_variables)
           rest == check_any_eager(children, k + 1, defined_variables, calls \o r.calls)
       IN  IF ~IsOk(r.res) THEN Eval(r.res, calls \o r.calls)
           ELSE IF Truthy(r.res[2]) /\ IsOk(rest.res) THEN Eval(Ok(PyBool(TRUE)), rest.calls)
           ELSE rest

\* The loop over conditions['all'], from child k on; calls are the calls so far.
check_all(children, k, defined_variables, calls) ==
  IF k > Len(children) THEN Eval(Ok(PyBool(TRUE)), calls)
  ELSE LET r == check_conditions_recursively(children[k], defined_variables)
       IN  IF ~IsOk(r.res) THEN Eval(r.res, calls \o r.calls)
           ELSE IF ~Truthy(r.res[2]) THEN Eval(Ok(PyBool(FALSE)), calls \o r.calls)
           ELSE check_all(children, k + 1, defined_variables, calls \o r.calls)

\* The loop over conditions['any'], from child k on.
check_any(children, k, defined_variables, calls) ==
  IF k > Len(children) THEN Eval(Ok(PyBool(FALSE)), calls)
  ELSE LET r == check_conditions_recursively(children[k], defined_variables)
       IN  IF ~IsOk(r.res) THEN Eval(r.res, calls \o r.calls)
           ELSE IF Truthy(r.res[2]) THEN Eval(Ok(PyBool(TRUE)), calls \o r.calls)
           ELSE check_any(children, k + 1, defined_variables, calls \o r.calls)

check_conditions_recursively(conditions, defined_variables) ==
  IF conditions.keys = {"all"}
  THEN IF Len(conditions.all) < 1 THEN Eval(Raise("AssertionError"), <<>>)
       ELSE check_all(conditions.all, 1, defined_variables, <<>>)
  ELSE IF conditions.keys = {"any"}
  THEN IF Len(conditions.any) < 1 THEN Eval(Raise("AssertionError"), <<>>)
       ELSE check_any(conditions.any, 1, defined_variables, <<>>)
  ELSE IF "any" \in conditions.keys \/ "all" \in conditions.keys
  THEN Eval(Raise("AssertionError"), <<>>)
  ELSE check_condition(conditions, defined_variables)

(***************************************************************************)
(* The inputs: providers, conditions and rules.                            *)
(***************************************************************************)
Variable(field_type, ret) == [attr |-> "variable", field_type |-> field_type, ret |-> ret]
Method(ret) == [attr |-> "method", field_type |-> "", ret |-> ret]

W(word) == PyStr(<<word>>)

\* defined_variables: an order's provider.  paid tells if the order has a
\* payment; without one order_payment_type and billing_type raise
\* MissingVariableException (tests/test_missing.py).
Variables(in_stock, on_sale, paid) ==
  [in_stock |-> Variable("boolean", Ok(PyBool(in_stock))),
   on_sale |-> Variable("boolean", Ok(PyBool(on_sale))),
   order_payment_type |->
     Variable("string", IF paid THEN Ok(W("credit_card"))
                        ELSE Raise("MissingVariableException")),
   billing_type |->
     Variable("string", IF paid THEN Ok(W("paypal"))
                        ELSE Raise("MissingVariableException")),
   current_inventory |-> Variable("numeric", Ok(PyInt(21))),
   color |-> Variable("select", Ok(PyList(<<W("red"), W("Blue")>>))),
   tags |-> Variable("select_multiple", Ok(PyList(<<W("a"), W("B")>>))),
   get_all_variables |-> Method(Ok(PyList(<<>>)))]

VariableProviders == {Variables(s, o, p) : s \in BOOLEAN, o \in BOOLEAN, p \in BOOLEAN}

\* defined_actions: approve fails when the approval service does; order_more
\* always returns; get_all_actions is BaseActions' listing, not an action.
Actions(approve_fails) ==
  [approve |-> [attr |-> "action",
                ret |-> IF approve_fails THEN Raise("RuntimeError")
                        ELSE Ok(PyObj("approved"))],
   order_more |-> [attr |-> "action", ret |-> Ok(PyInt(40))],
   get_all_actions |-> [attr |-> "method", ret |-> Ok(PyList(<<>>))]]

ActionProviders == {Actions(f) : f \in BOOLEAN}

\* Sequences over S of length lo..hi.
SeqsOf(S, lo, hi) == UNION {[1..n -> S] : n \in lo..hi}

\* The bounds: children of a composite condition, rules of a rule list.
MaxChildren == 2
MaxRules == 2

InStock == LeafNode("in_stock", "is_true", PyNone, FALSE)
NotOnSale == LeafNode("on_sale", "is_false", PyNone, FALSE)
NotPaypal == LeafNode("order_payment_type", "not_equal_to", W("paypal"), FALSE)
SameBilling == LeafNode("order_payment_type", "equal_to", W("billing_type"), TRUE)
Undefined == LeafNode("undefined_variable", "is_true", PyNone, FALSE)

\* The conditions a composite of the model is built from: leaves and nested
\* composites (empty and mixed-key ones among them).
Children ==
  {InStock, NotOnSale, NotPaypal, SameBilling, Undefined,
   AllNode(<<InStock, NotOnSale>>), AnyNode(<<NotPaypal, InStock>>),
   AllNode(<<AnyNode(<<NotOnSale, SameBilling>>), InStock>>),
   AnyNode(<<AllNode(<<InStock, NotPaypal>>), NotOnSale>>),
   AllNode(<<>>), AnyNode(<<>>),
   [AllNode(<<InStock>>) EXCEPT !.keys = {"all", "name"}]}

Composites ==
  {AllNode(cs) : cs \in SeqsOf(Children, 1, MaxChildren)}
    \cup {AnyNode(cs) : cs \in SeqsOf(Children, 1, MaxChildren)}

\* Every leaf over one variable of each kind (and the names that are no
\* variable), every attribute name of the types and one that is none, and
\* a value of each Python type.
LeafVariables ==
  {"in_stock", "order_payment_type", "current_inventory", "color", "tags",
   "get_all_variables", "undefined_variable"}
OperatorNames == UNION {TypeAttributes(k) : k \in Kinds} \cup {"no_such_operator"}
LeafValues ==
  {PyNone, PyBool(TRUE), PyBool(FALSE), PyInt(0), PyInt(21), PyDec(21 * TicksPerUnit + 1),
   PyStr(<<>>), W("credit_card"), W("RED"), PyList(<<W("a")>>)}
Leaves == {LeafNode(n, o, v, FALSE) : n \in LeafVariables, o \in OperatorNames, v \in LeafValues}

Conditions == Children \cup Composites \cup Leaves

Rule(conditions, actions) == [conditions |-> conditions, actions |-> actions]
Action(name) == [name |-> name]

\* The action lists of the model's rules: none, one, several (of one name
\* and of two), and names that are no action of the provider.
ActionLists ==
  {<<>>, <<Action("approve")>>, <<Action("order_more")>>,
   <<Action("approve"), Action("order_more")>>,
   <<Action("order_more"), Action("approve")>>,
   <<Action("order_more"), Action("order_more")>>,
   <<Action("undefined_action")>>,
   <<Action("order_more"), Action("undefined_action")>>,
   <<Action("get_all_actions")>>}

Rules ==
  {Rule(AllNode(<<InStock>>), a) : a \in ActionLists}
    \cup {Rule(c, <<Action("approve")>>) :
            c \in {AnyNode(<<NotOnSale, InStock>>), AllNode(<<NotPaypal>>),
                   AllNode(<<InStock, Undefined>>)}}
    \cup {Rule(AllNode(<<NotOnSale>>), <<Action("order_more")>>)}

(***************************************************************************)
(* The state: the arguments of the entry point called, and the position    *)
(* and locals of run_all, run and do_actions.                              *)
(***************************************************************************)
VARIABLES
  entry,                 \* the function called: run, run_all, get_value,
                         \* check_conditions_recursively
  rule_list,             \* its rules (run: the one rule)
  defined_variables,
  defined_actions,
  stop_on_first_trigger,
  pc,
  i,                     \* run_all: the index of `rule` in rule_list
  j,                     \* do_actions: the index of `action` in actions
  conditions,            \* run: rule['conditions']
  rule_triggered,        \* run: the truth value of the conditions' result
  actions_results,       \* do_actions: a dict, <<name, value>> in key order
  rule_results,          \* run_all
  calls,                 \* every provider callable invoked so far:
                         \* <<"variable" or "action", rule index, name>>
  outcome                \* <<"running", 0>>, <<"ok", value returned>> or
                         \* <<"raise", exception>>

vars ==
  <<entry, rule_list, defined_variables, defined_actions, stop_on_first_trigger, pc,
    i, j, conditions, rule_triggered, actions_results, rule_results, calls, outcome>>

inputs == <<entry, rule_list, defined_variables, defined_actions, stop_on_first_trigger>>

Running == <<"running", 0>>

Tagged(kind, rule, names) == [k \in 1..Len(names) |-> <<kind, rule, names[k]>>]

\* dict[name] = value: a new key goes last, a known key keeps its place.
DictSet(dict, name, value) ==
  IF \E k \in 1..Len(dict) : dict[k][1] = name
  THEN [k \in 1..Len(dict) |-> IF dict[k][1] = name THEN <<name, value>> ELSE dict[k]]
  ELSE Append(dict, <<name, value>>)

Init ==
  /\ entry \in {"run", "run_all", "get_value"}
  /\ rule_list \in SeqsOf(Rules, IF entry = "run" THEN 1 ELSE 0,
                                 IF entry = "run" THEN 1 ELSE MaxRules)
  /\ defined_variables \in {Variables(s, TRUE, p) : s \in BOOLEAN, p \in BOOLEAN}
  /\ defined_actions \in ActionProviders
  /\ stop_on_first_trigger \in (IF entry = "run_all" THEN BOOLEAN ELSE {entry = "get_value"})
  /\ pc = IF rule_list = <<>> THEN "run_all_return" ELSE "run"
  /\ i = 1
  /\ j = 1
  /\ conditions = AllNode(<<>>)
  /\ rule_triggered = FALSE
  /\ actions_results = <<>>
  /\ rule_results = <<>>
  /\ calls = <<>>
  /\ outcome = Running

\* run, lines 69-71: check the conditions of rule_list[i].
Run ==
  /\ pc = "run"
  /\ LET rule == rule_list[i]
         r == check_conditions_recursively(rule.conditions, defined_variables)
     IN  /\ conditions' = rule.conditions
         /\ calls' = calls \o Tagged("variable", i, r.calls)
         /\ actions_results' = <<>>
         /\ j' = 1
         /\ IF ~IsOk(r.res)
            THEN /\ outcome' = r.res
                 /\ pc' = "done"
                 /\ UNCHANGED rule_triggered
            ELSE /\ rule_triggered' = Truthy(r.res[2])
                 /\ pc' = IF Truthy(r.res[2]) THEN "do_actions" ELSE "run_return"
                 /\ UNCHANGED outcome
  /\ UNCHANGED <<inputs, i, rule_results>>

\* do_actions, lines 168-180: one turn of the loop over the rule's actions.
DoAction ==
  /\ pc = "do_actions"
  /\ j <= Len(rule_list[i].actions)
  /\ LET method_name == rule_list[i].actions[j].name
     IN  IF method_name \notin DOMAIN defined_actions
         THEN /\ outcome' = Raise("AssertionError")
              /\ pc' = "done"
              /\ UNCHANGED <<calls, actions_results, j>>
         ELSE /\ calls' = Append(calls, <<"action", i, method_name>>)
              /\ IF IsOk(defined_actions[method_name].ret)
                 THEN /\ actions_results' =
                           DictSet(actions_results, method_name,
                                   defined_actions[method_name].ret[2])
                      /\ j' = j + 1
                      /\ UNCHANGED <<outcome, pc>>
                 ELSE /\ outcome' = defined_actions[method_name].ret
                      /\ pc' = "done"
                      /\ UNCHANGED <<actions_results, j>>
  /\ UNCHANGED <<inputs, i, conditions, rule_triggered, rule_results>>

\* do_actions, line 182, and run, line 75: the loop is over.
DoActionsReturn ==
  /\ pc = "do_actions"
  /\ j > Len(rule_list[i].actions)
  /\ pc' = "run_return"
  /\ UNCHANGED <<inputs, i, j, conditions, rule_triggered, actions_results,
                 rule_results, calls, outcome>>

\* run has returned actions_results: to its caller, or to run_all's loop,
\* lines 53-57.
RunReturn ==
  /\ pc = "run_return"
  /\ IF entry = "run"
     THEN /\ outcome' = Ok(actions_results)
          /\ pc' = "done"
          /\ UNCHANGED <<i, rule_results>>
     ELSE /\ rule_results' = IF actions_results # <<>>
                             THEN Append(rule_results, actions_results)
                             ELSE rule_results
          /\ i' = i + 1
          /\ pc' = IF (actions_results # <<>> /\ stop_on_first_trigger)
                      \/ i + 1 > Len(rule_list)
                   THEN "run_all_return" ELSE "run"
          /\ UNCHANGED outcome
  /\ UNCHANGED <<inputs, j, conditions, rule_triggered, actions_results, calls>>

\* get_value, lines 22-32.
get_value(results) ==
  IF Len(results) = 0 THEN Raise("InvalidRuleDefinition")
  ELSE IF Len(results[1]) # 1 THEN Raise("InvalidRuleDefinition")
  ELSE Ok(results[1][1][2])

\* run_all returns rule_results, lines 57 and 59: to its caller or to get_value.
RunAllReturn ==
  /\ pc = "run_all_return"
  /\ outcome' = IF entry = "get_value" THEN get_value(rule_results) ELSE Ok(rule_results)
  /\ pc' = "done"
  /\ UNCHANGED <<inputs, i, j, conditions, rule_triggered, actions_results,
                 rule_results, calls>>

Next == Run \/ DoAction \/ DoActionsReturn \/ RunReturn \/ RunAllReturn

Spec == Init /\ [][Next]_vars

(***************************************************************************)
(* check_conditions_recursively alone, on every condition of the model.    *)
(***************************************************************************)
InitCond ==
  /\ entry = "check_conditions_recursively"
  /\ rule_list = <<>>
  /\ defined_variables \in VariableProviders
  /\ defined_actions = Actions(FALSE)
  /\ stop_on_first_trigger = FALSE
  /\ pc = "check"
  /\ i = 0
  /\ j = 0
  /\ conditions \in Conditions
  /\ rule_triggered = FALSE
  /\ actions_results = <<>>
  /\ rule_results = <<>>
  /\ calls = <<>>
  /\ outcome = Running

Check ==
  /\ pc = "check"
  /\ LET r == check_conditions_recursively(conditions, defined_variables)
     IN  /\ calls' = Tagged("variable", 0, r.calls)
         /\ outcome' = r.res
         /\ rule_triggered' = (IsOk(r.res) /\ Truthy(r.res[2]))
  /\ pc' = "done"
  /\ UNCHANGED <<inputs, i, j, conditions, actions_results, rule_results>>

NextCond == Check

SpecCond == InitCond /\ [][NextCond]_vars

(***************************************************************************)
(* NumericType alone: less_than, equal_to and greater_than of a numeric    *)
(* variable's value a against a comparison value b, one after the other.   *)
(* rule_results collects <<operator, what the call did>>.                  *)
(***************************************************************************)
\* The bound: the numbers of the model lie within MaxTicks ticks of 0 or 1.
MaxTicks == 3

NumericComparisons == <<"less_than", "equal_to", "greater_than">>

\* Raw numbers: int, bool, float and Decimal values.
NumericValues ==
  {PyInt(0), PyInt(1), PyBool(TRUE), PyBool(FALSE)}
    \cup {PyDec(t) : t \in (-MaxTicks)..MaxTicks}
    \cup {PyDec(TicksPerUnit + t) : t \in (-MaxTicks)..MaxTicks}
    \cup {PyFloat(t) : t \in {-1, 0, 1, TicksPerUnit - EPSILON, TicksPerUnit + EPSILON}}

InitNum ==
  /\ entry = "NumericType"
  /\ rule_list = <<>>
  /\ \E a \in NumericValues :
       defined_variables =
         [Variables(TRUE, TRUE, TRUE) EXCEPT !.current_inventory = Variable("numeric", Ok(a))]
  /\ defined_actions = Actions(FALSE)
  /\ stop_on_first_trigger = FALSE
  /\ pc = "compare"
  /\ i = 1
  /\ j = 0
  /\ \E b \in NumericValues :
       conditions = LeafNode("current_inventory", NumericComparisons[1], b, FALSE)
  /\ rule_triggered = FALSE
  /\ actions_results = <<>>
  /\ rule_results = <<>>
  /\ calls = <<>>
  /\ outcome = Running

\* check_condition of the leaf under operator NumericComparisons[i].
Compare ==
  /\ pc = "compare"
  /\ LET leaf == [conditions EXCEPT !.operator = NumericComparisons[i]]
         r == check_condition(leaf, defined_variables)
     IN  /\ conditions' = leaf
         /\ rule_results' = Append(rule_results, <<NumericComparisons[i], r.res>>)
         /\ calls' = calls \o Tagged("variable", 0, r.calls)
         /\ rule_triggered' = (IsOk(r.res) /\ Truthy(r.res[2]))
         /\ outcome' = IF i = Len(NumericComparisons) THEN r.res ELSE outcome
  /\ i' = i + 1
  /\ pc' = IF i = Len(NumericComparisons) THEN "done" ELSE "compare"
  /\ UNCHANGED <<inputs, j, actions_results>>

NextNum == Compare

SpecNum == InitNum /\ [][NextNum]_vars

(***************************************************************************)
(* BaseType.__init__ alone: a typed value of every kind constructed from   *)
(* every raw value, as _get_variable_value does with an accessor's return  *)
(* value (method.field_type(val)).                                         *)
(***************************************************************************)
\* Raw values of every Python type, the falsy one of each among them.
RawValues ==
  {PyNone, PyBool(TRUE), PyBool(FALSE), PyInt(0), PyInt(1), PyInt(21),
   PyFloat(0), PyFloat(1), PyDec(0), PyDec(TicksPerUnit + 1),
   PyStr(<<>>), W("a"), W("credit_card"), PyStr(<<"a", "B">>),
   PyList(<<>>), PyList(<<W("a")>>), PyList(<<W("a"), PyInt(1)>>), PyObj("order")}

InitCast ==
  /\ entry = "BaseType"
  /\ rule_list = <<>>
  /\ \E kind \in Kinds, raw \in RawValues :
       defined_variables = [value |-> Variable(kind, Ok(raw))]
  /\ defined_actions = Actions(FALSE)
  /\ stop_on_first_trigger = FALSE
  /\ pc = "construct"
  /\ i = 0
  /\ j = 0
  /\ conditions = AllNode(<<>>)
  /\ rule_triggered = FALSE
  /\ actions_results = <<>>
  /\ rule_results = <<>>
  /\ calls = <<>>
  /\ outcome = Running

\* _get_variable_value, lines 131-133: the accessor's value, wrapped.
Construct ==
  /\ pc = "construct"
  /\ LET r == _get_variable_value(defined_variables, "value")
     IN  /\ outcome' = r.res
         /\ calls' = Tagged("variable", 0, r.calls)
  /\ pc' = "done"
  /\ UNCHANGED <<inputs, i, j, conditions, rule_triggered, actions_results, rule_results>>

NextCast == Construct

SpecCast == InitCast /\ [][NextCast]_vars

(***************************************************************************)
(* The claims.                                                             *)
(***************************************************************************)
RECURSIVE Subnodes(_)
\* A condition and every condition nested in it.
Subnodes(c) ==
  {c} \cup UNION {Subnodes(c.all[k]) : k \in 1..Len(c.all)}
      \cup UNION {Subnodes(c.any[k]) : k \in 1..Len(c.any)}

RECURSIVE ConcatCalls(_, _)
\* The calls of the evaluations evals[1..n], in order.
ConcatCalls(evals, n) ==
  IF n = 0 THEN <<>> ELSE ConcatCalls(evals, n - 1) \o evals[n].calls

IsTrue(e) == IsOk(e.res) /\ Truthy(e.res[2])
IsFalse(e) == IsOk(e.res) /\ ~Truthy(e.res[2])

\* What evaluating a node of `conditions` did: for the whole tree, what the
\* state holds once Check has run; for a nested node, its own evaluation.
Evaluated(node) ==
  IF node = conditions
  THEN Eval(outcome, [k \in 1..Len(calls) |-> calls[k][3]])
  ELSE check_conditions_recursively(node, defined_variables)

ChildEvals(children) ==
  [k \in 1..Len(children) |-> check_conditions_recursively(children[k], defined_variables)]

\* C1: an {all: [c1..cn]} node, n >= 1, returns the AND of its children's
\* results, and once a child is false (the ones before it true) it returns
\* False having invoked the accessors of the children up to that one only,
\* none of a later child.
C1_AllShortCircuits ==
  pc = "done" =>
    \A node \in Subnodes(conditions) :
      (node.keys = {"all"} /\ Len(node.all) >= 1) =>
        LET r == Evaluated(node)
            ch == ChildEvals(node.all)
            n == Len(node.all)
            and == PyBool(\A k \in 1..n : IsTrue(ch[k]))
        IN  /\ (\A k \in 1..n : IsOk(ch[k].res)) => r.res = Ok(and)
            /\ IsOk(r.res) => r.res = Ok(and)
            /\ (\A k \in 1..n : IsTrue(ch[k])) => r.calls = ConcatCalls(ch, n)
            /\ \A k \in 1..n :
                 (IsFalse(ch[k]) /\ \A m \in 1..(k - 1) : IsTrue(ch[m])) =>
                   /\ r.res = Ok(PyBool(FALSE))
                   /\ r.calls = ConcatCalls(ch, k)

\* An all node whose first child is false and whose second child has an
\* accessor of its own: the accessor was not invoked.
C1_Witness ==
  /\ pc = "done"
  /\ conditions.keys = {"all"}
  /\ Len(conditions.all) = 2
  /\ IsFalse(ChildEvals(conditions.all)[1])
  /\ ChildEvals(conditions.all)[2].calls # <<>>
  /\ outcome = Ok(PyBool(FALSE))
  /\ Len(calls) = Len(ChildEvals(conditions.all)[1].calls)

\* C2: an {any: [c1..cn]} node, n >= 1, returns the OR of its children's
\* results, and once a child is true (the ones before it false) it returns
\* True having invoked the accessors of the children up to that one only;
\* it returns False only if every child is false.
C2_AnyShortCircuits ==
  pc = "done" =>
    \A node \in Subnodes(conditions) :
      (node.keys = {"any"} /\ Len(node.any) >= 1) =>
        LET r == Evaluated(node)
            ch == ChildEvals(node.any)
            n == Len(node.any)
            or == PyBool(\E k \in 1..n : IsTrue(ch[k]))
        IN  /\ (\A k \in 1..n : IsOk(ch[k].res)) => r.res = Ok(or)
            /\ IsOk(r.res) => r.res = Ok(or)
            /\ r.res = Ok(PyBool(FALSE)) => \A k \in 1..n : IsFalse(ch[k])
            /\ (\A k \in 1..n : IsFalse(ch[k])) => r.calls = ConcatCalls(ch, n)
            /\ \A k \in 1..n :
                 (IsTrue(ch[k]) /\ \A m \in 1..(k - 1) : IsFalse(ch[m])) =>
                   /\ r.res = Ok(PyBool(TRUE))
                   /\ r.calls = ConcatCalls(ch, k)

\* An any node whose first child is true and whose second child has an
\* accessor of its own: the accessor was not invoked.
C2_Witness ==
  /\ pc = "done"
  /\ conditions.keys = {"any"}
  /\ Len(conditions.any) = 2
  /\ IsTrue(ChildEvals(conditions.any)[1])
  /\ ChildEvals(conditions.any)[2].calls # <<>>
  /\ outcome = Ok(PyBool(TRUE))
  /\ Len(calls) = Len(ChildEvals(conditions.any)[1].calls)

(***************************************************************************)
(* The rule runner's claims, stated on the calls made and on what the      *)
(* entry point returned or raised.                                         *)
(***************************************************************************)
\* The errors the specification makes fatal: definition, resolution and
\* coercion errors.
FatalErrors ==
  {"AssertionError", "TypeError", "AttributeError", "KeyError", "InvalidRuleDefinition"}
Fatal == outcome[1] = "raise" /\ outcome[2] \in FatalErrors

CondEval(k) == check_conditions_recursively(rule_list[k].conditions, defined_variables)
TreeTrue(k) == IsTrue(CondEval(k))
TreeFalse(k) == IsFalse(CondEval(k))
RuleIndexes == 1..Len(rule_list)
TrueRules == {k \in RuleIndexes : TreeTrue(k)}

\* run() is in progress on rule_list[i], or raised there (get_value alone
\* raises InvalidRuleDefinition, once run_all has returned).
InRule ==
  \/ pc \in {"do_actions", "run_return"}
  \/ pc = "done" /\ entry = "run"
  \/ pc = "done" /\ outcome[1] = "raise" /\ outcome[2] # "InvalidRuleDefinition"
\* The rules run() has been called on.
Started == {k \in RuleIndexes : k < i \/ (k = i /\ InRule)}

ActionCallsOf(k) == SelectSeq(calls, LAMBDA c : c[1] = "action" /\ c[2] = k)
VariableCallsOf(k) == SelectSeq(calls, LAMBDA c : c[1] = "variable" /\ c[2] = k)
ActionNames(k) == {rule_list[k].actions[a].name : a \in 1..Len(rule_list[k].actions)}
IsAction(name) == name \in DOMAIN defined_actions /\ defined_actions[name].attr = "action"
IsVariable(name) ==
  name \in DOMAIN defined_variables /\ defined_variables[name].attr = "variable"

\* v is what an action of rule k returns.
IsOutcomeOf(k, v) ==
  \E name \in ActionNames(k) :
    /\ name \in DOMAIN defined_actions
    /\ defined_actions[name].ret = Ok(v)

\* dict is the results of actions of rule k, at least one.
IsResultsOf(k, dict) ==
  /\ dict # <<>>
  /\ \A a \in 1..Len(dict) :
       /\ dict[a][1] \in ActionNames(k) \cap DOMAIN defined_actions
       /\ defined_actions[dict[a][1]].ret = Ok(dict[a][2])

\* The calls are made rule by rule, in list order.
InListOrder == \A p, q \in 1..Len(calls) : p < q => calls[p][2] <= calls[q][2]

RECURSIVE NthOf(_, _)
\* The n-th smallest member of a set of numbers.
NthOf(S, n) ==
  LET least == CHOOSE x \in S : \A y \in S : x <= y
  IN  IF n = 1 THEN least ELSE NthOf(S \ {least}, n - 1)

\* C3: get_value evaluates the rules in list order and returns the action
\* outcome of the first rule whose condition tree evaluates true; it fails
\* if no rule's tree evaluates true, or if that rule's outcome holds more
\* than one result.
C3_GetValueFirstTrueRule ==
  /\ InListOrder
  /\ (pc = "done" /\ entry = "get_value") =>
       /\ IsOk(outcome) =>
            \E k \in TrueRules :
              /\ \A m \in 1..(k - 1) : TreeFalse(m)
              /\ IsOutcomeOf(k, outcome[2])
       /\ (\A k \in RuleIndexes : TreeFalse(k)) => ~IsOk(outcome)
       /\ \A k \in TrueRules :
            ((\A m \in 1..(k - 1) : TreeFalse(m)) /\ Cardinality(ActionNames(k)) > 1)
              => ~IsOk(outcome)

\* C4: run_all without stop_on_first_trigger evaluates every rule in list
\* order and returns, in list order, exactly one outcome for each rule whose
\* condition tree evaluates true and nothing for the others; a rule that
\* triggers does not keep the later rules from being evaluated.  Only a
\* fatal (definition, resolution, coercion) error ends it otherwise.
C4_RunAllEveryRule ==
  /\ InListOrder
  /\ (pc = "done" /\ entry = "run_all" /\ ~stop_on_first_trigger /\ ~Fatal) =>
       /\ IsOk(outcome)
       /\ \A k \in RuleIndexes : VariableCallsOf(k) = Tagged("variable", k, CondEval(k).calls)
       /\ Len(outcome[2]) = Cardinality(TrueRules)
       /\ \A n \in 1..Len(outcome[2]) :
            n <= Cardinality(TrueRules) => IsResultsOf(NthOf(TrueRules, n), outcome[2][n])

\* C5: run invokes the rule's action and returns its outcome if and only
\* if the rule's condition tree evaluates true; when the tree evaluates
\* false no action accessor is invoked and the result is empty.
C5_RunActsIffTrue ==
  /\ \A c \in 1..Len(calls) : calls[c][1] = "action" => TreeTrue(calls[c][2])
  /\ (pc = "done" /\ entry = "run") =>
       /\ (TreeTrue(1) /\ ~Fatal) =>
            /\ ActionCallsOf(1) # <<>>
            /\ IsOk(outcome)
            /\ IsResultsOf(1, outcome[2])
       /\ TreeFalse(1) => (ActionCallsOf(1) = <<>> /\ outcome = Ok(<<>>))
       /\ (IsOk(outcome) /\ outcome[2] # <<>>) => TreeTrue(1)

\* C6: a variable accessor that raises MissingVariableException makes its
\* leaf false: the evaluation completes and the exception does not reach
\* the caller.
C6_MissingVariableIsFalse ==
  (pc = "done" /\ \E c \in 1..Len(calls) :
                    /\ calls[c][1] = "variable"
                    /\ defined_variables[calls[c][3]].ret = Raise("MissingVariableException"))
    => outcome # Raise("MissingVariableException")

\* C7: the failure of a triggered rule's action accessor is captured, not
\* propagated: the evaluation is not aborted by it, and run reports the
\* rule as triggered with a result for the action.
C7_ActionFailureCaptured ==
  pc = "done" =>
    \A c \in 1..Len(calls) :
      (calls[c][1] = "action" /\ ~IsOk(defined_actions[calls[c][3]].ret)) =>
        /\ outcome # defined_actions[calls[c][3]].ret
        /\ entry = "run" => (IsOk(outcome) /\ outcome[2] # <<>>)

\* C8: a rule whose actions list holds no action, or more than one, is
\* rejected with a definition error when it is evaluated, and none of its
\* actions is executed.
C8_OneActionPerRule ==
  /\ \A c \in 1..Len(calls) :
       calls[c][1] = "action" => Len(rule_list[calls[c][2]].actions) = 1
  /\ pc = "done" =>
       \A k \in Started :
         (TreeTrue(k) /\ Len(rule_list[k].actions) # 1) => Fatal

\* C9: for every kind and every operator name that is not one of the
\* kind's declared operators, evaluating a leaf that uses the name raises:
\* the leaf never has a result.
C9_UnknownOperatorRaises ==
  (/\ pc = "done"
   /\ entry = "check_conditions_recursively"
   /\ "name" \in conditions.keys
   /\ IsOk(_get_variable_value(defined_variables, conditions.name).res)) =>
    LET kind == _get_variable_value(defined_variables, conditions.name).res[2].kind
    IN  conditions.operator \notin DeclaredOperators(kind) => ~IsOk(outcome)

RECURSIVE ReachedLeaves(_)
\* The leaves of a condition that its evaluation comes to: a composite
\* stops at the first child that is not true (all) or not false (any).
ReachedLeaves(c) ==
  LET children == IF c.keys = {"all"} THEN c.all ELSE c.any
      ch == ChildEvals(children)
  IN  IF c.keys = {"all"}
      THEN UNION {ReachedLeaves(children[k]) :
                    k \in {n \in 1..Len(children) : \A m \in 1..(n - 1) : IsTrue(ch[m])}}
      ELSE IF c.keys = {"any"}
      THEN UNION {ReachedLeaves(children[k]) :
                    k \in {n \in 1..Len(children) : \A m \in 1..(n - 1) : IsFalse(ch[m])}}
      ELSE IF "all" \in c.keys \/ "any" \in c.keys THEN {}
      ELSE {c}

\* C10: a rule that names, in a leaf that is evaluated, a variable the
\* provider has no accessor for, or, being triggered, an action the provider
\* has no accessor for, makes the evaluation raise: the name is not taken
\* for a false leaf or a skipped action.
C10_UndefinedNameRaises ==
  pc = "done" =>
    \A k \in Started :
      /\ (\E leaf \in ReachedLeaves(rule_list[k].conditions) : ~IsVariable(leaf.name))
           => ~IsOk(outcome)
      /\ (TreeTrue(k) /\ \E name \in ActionNames(k) : ~IsAction(name))
           => ~IsOk(outcome)

RECURSIVE IsSubseq(_, _)
\* p is s with some of its elements left out.
IsSubseq(p, s) ==
  IF p = <<>> THEN TRUE
  ELSE IF s = <<>> THEN FALSE
  ELSE IF Head(p) = Head(s) THEN IsSubseq(Tail(p), Tail(s))
  ELSE IsSubseq(p, Tail(s))

RECURSIVE LeafOrder(_)
RECURSIVE LeafOrderOf(_, _)
\* The accessors a condition names, depth first and left to right: a leaf's
\* own variable, then its operand when the value is a variable.
LeafOrder(c) ==
  (IF "name" \in c.keys
   THEN <<c.name>> \o (IF c.value_is_variable THEN <<AttrName(c.value)>> ELSE <<>>)
   ELSE <<>>)
    \o LeafOrderOf(c.all, Len(c.all)) \o LeafOrderOf(c.any, Len(c.any))

LeafOrderOf(children, n) ==
  IF n = 0 THEN <<>> ELSE LeafOrderOf(children, n - 1) \o LeafOrder(children[n])

\* The names of the accessors invoked so far, in the order of invocation.
CallNames == [k \in 1..Len(calls) |-> calls[k][3]]

\* C11 as stated: the accessors invoked are a prefix of the tree's leaf
\* order, depth first and left to right.
C11_CallsArePrefixOfLeafOrder ==
  pc = "done" => IsPrefix(CallNames, LeafOrder(conditions))

\* C11, amended: the accessors invoked are a subsequence of the tree's leaf
\* order (the leaves left out are those of the children an all or any node
\* skips), a prefix of it for a tree that is one leaf; and every all or any
\* node invokes the whole of its first m children's accessors, child after
\* child, each child having returned before the next is entered.
C11_CallsFollowLeafOrder ==
  pc = "done" =>
    /\ IsSubseq(CallNames, LeafOrder(conditions))
    /\ "name" \in conditions.keys => IsPrefix(CallNames, LeafOrder(conditions))
    /\ \A node \in Subnodes(conditions) :
         (node.keys \in {{"all"}, {"any"}} /\ Len(node.all) + Len(node.any) >= 1) =>
           LET children == IF node.keys = {"all"} THEN node.all ELSE node.any
               ch == ChildEvals(children)
               r == Evaluated(node)
           IN  \E m \in 1..Len(children) :
                 /\ r.calls = ConcatCalls(ch, m)
                 /\ \A k \in 1..(m - 1) : IsOk(ch[k].res)
                 /\ IsSubseq(r.calls, LeafOrder(node))

\* A tree whose any node returns at its first child and whose evaluation
\* goes on with the any node's sibling: the accessors invoked leave a leaf
\* out and are in the leaves' order nonetheless.
C11_Witness ==
  /\ pc = "done"
  /\ IsOk(outcome)
  /\ conditions.keys = {"all"}
  /\ Len(CallNames) >= 2
  /\ ~IsPrefix(CallNames, LeafOrder(conditions))
  /\ IsSubseq(CallNames, LeafOrder(conditions))

\* What the comparison named op returned (SpecNum).
Compared(op) ==
  LET k == CHOOSE n \in 1..Len(rule_results) : rule_results[n][1] = op
  IN  rule_results[k][2]

Represents(raw, kind) ==
  CASE kind = "string" -> raw[1] = "str"
    [] kind = "boolean" -> raw[1] = "bool"
    [] kind = "numeric" -> IsNumber(raw)
    [] kind \in {"select", "select_multiple"} -> HasIter(raw)

\* C13: constructing a typed value raises whenever the raw input cannot
\* represent the kind, and an accepted input of the string, boolean and
\* select kinds is stored unchanged.
C13_CoercionValidates ==
  (entry = "BaseType" /\ pc = "done") =>
    LET kind == defined_variables.value.field_type
        raw == defined_variables.value.ret[2]
    IN  /\ ~Represents(raw, kind) => ~IsOk(outcome)
        /\ (IsOk(outcome) /\ kind \in {"string", "boolean", "select"})
             => outcome[2].value = raw

\* The action accessors invoked so far, over all rules.
ActionCalls == SelectSeq(calls, LAMBDA c : c[1] = "action")

\* C14: get_value raises whenever the triggered rule executed more than one
\* action: if get_value returns a value, exactly one action accessor was
\* invoked during the call.
C14_GetValueOneActionInvoked ==
  (entry = "get_value" /\ pc = "done") =>
    /\ IsOk(outcome) => Len(ActionCalls) = 1
    /\ Len(ActionCalls) > 1 => ~IsOk(outcome)

\* The first rule in list order whose condition tree evaluates true, the
\* trees of the rules before it evaluating false (0: there is none).
FirstTrueRule ==
  IF \E k \in RuleIndexes : TreeTrue(k) /\ \A m \in 1..(k - 1) : TreeFalse(m)
  THEN CHOOSE k \in RuleIndexes : TreeTrue(k) /\ \A m \in 1..(k - 1) : TreeFalse(m)
  ELSE 0

\* C15: with stop_on_first_trigger set, run_all stops at the first rule in
\* list order whose condition tree evaluates true: it returns a sequence
\* holding exactly that rule's outcome (unless the rule's definition is in
\* error), and no variable or action accessor of a later rule is invoked.
C15_StopOnFirstTrigger ==
  (entry = "run_all" /\ stop_on_first_trigger /\ FirstTrueRule # 0) =>
    /\ \A c \in 1..Len(calls) : calls[c][2] <= FirstTrueRule
    /\ pc = "done" =>
         \/ Fatal
         \/ /\ IsOk(outcome)
            /\ Len(outcome[2]) = 1
            /\ IsResultsOf(FirstTrueRule, outcome[2][1])

=============================================================================
